---------------------------- MODULE Spec2Model ----------------------------
(***************************************************************************)
(* A model of the terminal lyrics player (base.py) and of its loader       *)
(* (src/loaders/spotify_lyrics.py).                                        *)
(*                                                                         *)
(* Time is counted in units of 10 ms, so the 0.01 s sleep floor of the     *)
(* tick loop is one unit.  The clock is time.monotonic() measured from the *)
(* instant start_time is taken (base.py line 198), so start_time is 0 and  *)
(* time.monotonic() - start_time is the clock itself.                      *)
(*                                                                         *)
(* Indices are Python's: index i of a list is element i+1 of the TLA+      *)
(* sequence that models it.                                                *)
(***************************************************************************)
EXTENDS Integers, Sequences, FiniteSets, TLC

\* ------------------------------------------------------------------ bounds
MaxLen == 3
MaxTime == 3
MaxTotal == 3

\* max(0.01, time_to_sleep): the floor of the sleep, 0.01 s.
MinTick == 1

VARIABLES
    LYRICS_DATA,            \* the times of the entries, in sequence order
    TOTAL_MUSIC_DURATION,
    clock,                  \* time.monotonic() - start_time
    pc,                     \* the main thread's position
    current_line_index,     \* the scheduler's raw cursor
    elapsed_time,           \* the sample of line 203
    display_index,          \* display_index_for_display
    wakeAt,                 \* when the pending time.sleep is due, 0: none pending
    screen_lock,            \* "free" or who holds it
    cursorHidden,           \* the terminal's cursor state
    lastShown,              \* index given to the last display_content call, -1: none
    lastWriter,             \* who wrote to the terminal last
    cleanupCalls,           \* calls of cleanup_screen
    endMessage,             \* the final end message was written
    loopExit,               \* why the tick loop was left
    lastCheck,              \* what the last loop check observed: elapsed below the total or not
    tickNo,                 \* 0: no tick yet, 1: first tick, 2: a later tick
    skippedTicks,           \* a tick has passed without a render
    passedOver,             \* the indices that a tick of the running loop has passed over
    workTookTime,           \* the clock has advanced while the loop was at work, not asleep
    \* split_and_wrap_text, called on its own
    text,                   \* the argument: a sequence of characters
    max_width,
    wrapped_lines,          \* the list returned
    wrapPc,                 \* "call", "done"; "off" when the function is not exercised
    \* display_content, called on its own
    TEXT_HEIGHT,
    TEXT_WIDTH,
    title_lines,            \* content_info["title_lines"]
    artist_lines,           \* content_info["artist_lines"]
    lyrics_data,            \* the "original" texts of the lyrics_data argument
    active_index,           \* the current_line_index argument
    painted,                \* the rows written, in order
    current_display_row,    \* the row cursor when the call returns
    header_rows,            \* the row cursor once header and separator are done
    renderPc,               \* "call", "done"; "off" when the function is not exercised
    \* a SpotifyLyricsLoader object and the file it reads
    json_file,              \* what open() and json.load() find at the path
    title,                  \* self.title
    artist,                 \* self.artist
    _lyrics_data,           \* self._lyrics_data: None, or the list
    _raw_data,              \* self._raw_data: None, or the list
    _metadata,              \* self._metadata: None, or the dict
    returned,               \* the last call made on the loader and how it ended
    loadSucceeded,          \* a load() has returned True
    supplied                \* the last non-empty title and artist given to set_metadata

schedVars == <<LYRICS_DATA, TOTAL_MUSIC_DURATION, clock, pc,
               current_line_index, elapsed_time, display_index, wakeAt,
               screen_lock, cursorHidden, lastShown, lastWriter, cleanupCalls,
               endMessage, loopExit, lastCheck, tickNo, skippedTicks,
               passedOver, workTookTime>>
wrapVars == <<text, max_width, wrapped_lines, wrapPc>>
renderVars == <<TEXT_HEIGHT, TEXT_WIDTH, title_lines, artist_lines,
                lyrics_data, active_index, painted, current_display_row,
                header_rows, renderPc>>
loaderVars == <<json_file, title, artist, _lyrics_data, _raw_data, _metadata,
                returned, loadSucceeded, supplied>>
vars == <<schedVars, wrapVars, renderVars, loaderVars>>

\* What the scheduler and the main program leave alone.
notSched == <<wrapVars, renderVars, loaderVars>>

\* ----------------------------------------------------------------- inputs
Max(a, b) == IF a >= b THEN a ELSE b

SeqsUpTo(S, n) == UNION {[1..k -> S] : k \in 0..n}

\* Every sequence of at most MaxLen times; the loop does not sort.
Sequences == SeqsUpTo(0..MaxTime, MaxLen)

Chronological(data) ==
    \A i \in 1..Len(data) : \A j \in i..Len(data) : data[i] <= data[j]

\* -------------------------------------------------- the tick loop's steps
\* Lines 206-207: while current_line_index < len(LYRICS_DATA) and
\* elapsed_time >= LYRICS_DATA[current_line_index]["time"]: += 1
\* (variant) the comparison is strict: an entry is reached only after its time
RECURSIVE AdvanceCursor_Strict(_, _, _)
AdvanceCursor_Strict(data, c, e) ==
    IF c < Len(data) /\ e > data[c + 1]
    THEN AdvanceCursor_Strict(data, c + 1, e)
    ELSE c

\* (variant) the cursor starts over once it has passed the last entry
RECURSIVE AdvanceCursor_Rewind(_, _, _)
AdvanceCursor_Rewind(data, c, e) ==
    IF c < Len(data) /\ e >= data[c + 1]
    THEN AdvanceCursor_Rewind(data, c + 1, e)
    ELSE IF c >= Len(data) THEN 0 ELSE c

\* (variant) the cursor keeps counting once it is past the last entry
RECURSIVE AdvanceCursor_PastEnd(_, _, _)
AdvanceCursor_PastEnd(data, c, e) ==
    IF c < Len(data) /\ e >= data[c + 1]
    THEN AdvanceCursor_PastEnd(data, c + 1, e)
    ELSE IF c >= Len(data) THEN c + 1 ELSE c

\* (variant) the while of line 206 is an if: one entry a tick at most
AdvanceCursor_OneStep(data, c, e) ==
    IF c < Len(data) /\ e >= data[c + 1] THEN c + 1 ELSE c

RECURSIVE AdvanceCursor(_, _, _)
AdvanceCursor(data, c, e) ==
    IF c < Len(data) /\ e >= data[c + 1]
    THEN AdvanceCursor(data, c + 1, e)
    ELSE c

\* (variant) the raw cursor is shown as it is: no - 1, no skip, no clamp
ResolveDisplay_Raw(data, c) == c

\* (variant) the - 1 of line 211 is missing
ResolveDisplay_NoMinusOne(data, c) ==
    IF c >= Len(data) THEN Len(data) - 1 ELSE c

\* (variant) line 214 does not look at the first entry's time: a sequence
\* that has entries always shows one
ResolveDisplay_EdgeAlways(data, c) ==
    LET d0 == c - 1
        d1 == IF d0 < 0 /\ Len(data) > 0 THEN 0 ELSE d0
    IN  IF d1 < 0 THEN d1
        ELSE IF d1 >= Len(data) THEN Len(data) - 1
        ELSE d1

\* Lines 211-223: the index shown for raw cursor c; negative: skip the render.
ResolveDisplay(data, c) ==
    LET d0 == c - 1
        d1 == IF d0 < 0 /\ Len(data) > 0 /\ data[1] = 0 THEN 0 ELSE d0
    IN  IF d1 < 0 THEN d1
        ELSE IF d1 >= Len(data) THEN Len(data) - 1
        ELSE d1

\* (variant) the loop sleeps the floor of line 240 and no more
SleepTime_FloorOnly(data, c, total, now) == MinTick

\* (variant) the floor of line 240 is missing
SleepTime_NoFloor(data, c, total, now) ==
    (IF c < Len(data) THEN data[c + 1] ELSE total) - now

\* Lines 232-240: the sleep requested at clock reading now.
SleepTime(data, c, total, now) ==
    LET next_target_time == IF c < Len(data) THEN data[c + 1] ELSE total
    IN  Max(MinTick, next_target_time - now)

\* (variant) the loop check admits elapsed equal to the total duration
LoopContinues_Inclusive(e, total) == e <= total

\* Line 202: the loop goes on while elapsed is below the total duration.
LoopContinues(e, total) == e < total

\* ------------------------------------------------------------------- Init
SchedInit ==
    /\ LYRICS_DATA \in Sequences
    /\ TOTAL_MUSIC_DURATION \in 1..MaxTotal
    /\ clock = 0
    /\ pc = "start"
    /\ current_line_index = 0
    /\ elapsed_time = 0
    /\ display_index = -1
    /\ wakeAt = 0
    /\ screen_lock = "free"
    /\ cursorHidden = FALSE
    /\ lastShown = -1
    /\ lastWriter = "none"
    /\ cleanupCalls = 0
    /\ endMessage = FALSE
    /\ loopExit = "none"
    /\ lastCheck = "none"
    /\ tickNo = 0
    /\ skippedTicks = FALSE
    /\ passedOver = {}
    /\ workTookTime = FALSE

inputVars == <<LYRICS_DATA, TOTAL_MUSIC_DURATION>>
histVars == <<lastShown, lastWriter, cleanupCalls, endMessage, loopExit,
              lastCheck, tickNo, skippedTicks, passedOver,
              workTookTime>>

\* The positions of the tick loop (lines 202-241).
LoopPcs == {"check", "tick", "disp_enter", "disp_paint", "disp_flush",
            "sleepcalc", "sleeping"}
\* The positions inside the try block of the main program (lines 267-276).
TryPcs == LoopPcs \cup {"start", "final", "final_write", "finalwait",
                        "mainmsg", "mainmsg_write", "input"}

\* Nothing after the tick loop reads the clock or the loop's locals, and an
\* exception that leaves start_lyrics_animation discards its frame: the state
\* keeps them only while the loop runs.
LoopLocalsDropped ==
    /\ clock' = 0
    /\ current_line_index' = 0
    /\ elapsed_time' = 0
    /\ display_index' = -1
    /\ wakeAt' = 0
    /\ passedOver' = {}

\* ------------------------------------------------------------- the clock
\* The last clock value that matters: past every entry's time and every total
\* duration all readings are alike to the loop.
ClockCap == Max(MaxTotal, MaxTime) + MinTick

\* The positions whose next step reads the clock (lines 202, 203, 238) or
\* waits for it (line 241).
ClockReadPcs == {"check", "tick", "sleepcalc", "sleeping"}

\* Time passes.  The program sees the clock only where it reads it, so the
\* time that passes elsewhere is counted just before the next reading; a
\* sleep always ends.
Tick ==
    /\ pc \in ClockReadPcs
    /\ \/ clock < ClockCap
       \/ pc = "sleeping" /\ clock < wakeAt
    /\ clock' = clock + 1
    /\ UNCHANGED <<inputVars, pc, current_line_index, elapsed_time,
                   display_index, wakeAt, screen_lock, cursorHidden, histVars>>
    /\ UNCHANGED notSched

\* ------------------------------------------------ start_lyrics_animation
\* Lines 192-199: hide the cursor, clear, take start_time, cursor at 0.
Start ==
    /\ pc = "start"
    /\ cursorHidden' = TRUE
    /\ lastWriter' = "start"
    /\ clock' = 0
    /\ current_line_index' = 0
    /\ pc' = "check"
    /\ UNCHANGED <<inputVars, elapsed_time, display_index, wakeAt, screen_lock,
                   lastShown, cleanupCalls, endMessage, loopExit, lastCheck,
                   tickNo, skippedTicks, passedOver,
                   workTookTime>>
    /\ UNCHANGED notSched

\* Line 202: while time.monotonic() - start_time < TOTAL_MUSIC_DURATION
LoopCheck ==
    /\ pc = "check"
    /\ lastCheck' = IF clock < TOTAL_MUSIC_DURATION THEN "below" ELSE "reached"
    /\ IF LoopContinues(clock, TOTAL_MUSIC_DURATION)
       THEN /\ pc' = "tick"
            /\ tickNo' = IF tickNo = 0 THEN 1 ELSE 2
            /\ UNCHANGED <<loopExit, clock, current_line_index, elapsed_time,
                           display_index, wakeAt, passedOver>>
       ELSE /\ pc' = "final"
            /\ loopExit' = "duration"
            /\ LoopLocalsDropped
            /\ UNCHANGED tickNo
    /\ UNCHANGED <<inputVars, screen_lock, cursorHidden, lastShown,
                   lastWriter, cleanupCalls, endMessage, skippedTicks,
                   workTookTime>>
    /\ UNCHANGED notSched

\* The indices between the index shown last and the index shown now: the
\* entries whose turn has come and gone between two frames.
PassedOverBy(shown, now) == {k \in 0..(now - 1) : shown < k}

\* Lines 203-226: sample the clock, advance the cursor, resolve the display
\* index, and either skip the render (continue) or call display_content.
TickBody ==
    /\ pc = "tick"
    /\ elapsed_time' = clock
    /\ current_line_index' = AdvanceCursor(LYRICS_DATA, current_line_index, clock)
    /\ display_index' = ResolveDisplay(LYRICS_DATA, current_line_index')
    /\ IF display_index' < 0
       THEN /\ pc' = "check"
            /\ skippedTicks' = TRUE
       ELSE /\ pc' = "disp_enter"
            /\ UNCHANGED skippedTicks
    /\ passedOver' = passedOver \cup PassedOverBy(lastShown, display_index')
    /\ UNCHANGED <<inputVars, clock, wakeAt, screen_lock, cursorHidden,
                   lastShown, lastWriter, cleanupCalls, endMessage, loopExit,
                   lastCheck, tickNo, workTookTime>>
    /\ UNCHANGED notSched

\* ------------------------------------------------------- display_content
\* Line 91: with screen_lock
DisplayEnter ==
    /\ pc = "disp_enter"
    /\ screen_lock = "free"
    /\ screen_lock' = "display"
    /\ lastShown' = display_index
    /\ pc' = "disp_paint"
    /\ UNCHANGED <<inputVars, clock, current_line_index, elapsed_time,
                   display_index, wakeAt, cursorHidden, lastWriter,
                   cleanupCalls, endMessage, loopExit, lastCheck, tickNo,
                   skippedTicks, passedOver,
                   workTookTime>>
    /\ UNCHANGED notSched

\* Lines 92-149: clear the screen and write the rows of the frame.
DisplayPaint ==
    /\ pc = "disp_paint"
    /\ lastWriter' = "display"
    /\ pc' = "disp_flush"
    /\ UNCHANGED <<inputVars, clock, current_line_index, elapsed_time,
                   display_index, wakeAt, screen_lock, cursorHidden, lastShown,
                   cleanupCalls, endMessage, loopExit, lastCheck, tickNo,
                   skippedTicks, passedOver,
                   workTookTime>>
    /\ UNCHANGED notSched

\* Line 151 and the end of the with block: flush, release the lock, return.
DisplayFlush ==
    /\ pc = "disp_flush"
    /\ lastWriter' = "display"
    /\ screen_lock' = "free"
    /\ pc' = "sleepcalc"
    /\ UNCHANGED <<inputVars, clock, current_line_index, elapsed_time,
                   display_index, wakeAt, cursorHidden, lastShown,
                   cleanupCalls, endMessage, loopExit, lastCheck, tickNo,
                   skippedTicks, passedOver,
                   workTookTime>>
    /\ UNCHANGED notSched

\* (variant) the handler of line 228 does not break: the loop goes on to its
\* sleep and tries again
DisplayOSError_Retry ==
    /\ pc \in {"disp_paint", "disp_flush"}
    /\ screen_lock' = "free"
    /\ loopExit' = "oserror"
    /\ pc' = "sleepcalc"
    /\ UNCHANGED <<inputVars, clock, current_line_index, elapsed_time,
                   display_index, wakeAt, passedOver, cursorHidden, lastShown,
                   lastWriter, cleanupCalls, endMessage, lastCheck, tickNo,
                   skippedTicks,
                   workTookTime>>
    /\ UNCHANGED notSched

\* (variant) the lock is taken and released by hand, and an error skips the
\* release
DisplayOSError_KeepsLock ==
    /\ pc \in {"disp_paint", "disp_flush"}
    /\ loopExit' = "oserror"
    /\ LoopLocalsDropped
    /\ pc' = "final"
    /\ UNCHANGED <<inputVars, screen_lock, cursorHidden, lastShown, lastWriter,
                   cleanupCalls, endMessage, lastCheck, tickNo,
                   skippedTicks,
                   workTookTime>>
    /\ UNCHANGED notSched

\* A write or the flush raises OSError: the with block releases the lock and
\* lines 228-229 leave the loop by break.
DisplayOSError ==
    /\ pc \in {"disp_paint", "disp_flush"}
    /\ screen_lock' = "free"
    /\ loopExit' = "oserror"
    /\ LoopLocalsDropped
    /\ pc' = "final"
    /\ UNCHANGED <<inputVars, cursorHidden, lastShown, lastWriter,
                   cleanupCalls, endMessage, lastCheck, tickNo,
                   skippedTicks,
                   workTookTime>>
    /\ UNCHANGED notSched

\* A write raises an exception that is no OSError (ValueError of a closed
\* stream): it passes line 228 and reaches line 279 of the main program.
DisplayOtherError ==
    /\ pc \in {"disp_paint", "disp_flush"}
    /\ screen_lock' = "free"
    /\ loopExit' = "exception"
    /\ LoopLocalsDropped
    /\ pc' = "except_exc"
    /\ UNCHANGED <<inputVars, cursorHidden, lastShown, lastWriter,
                   cleanupCalls, endMessage, lastCheck, tickNo,
                   skippedTicks,
                   workTookTime>>
    /\ UNCHANGED notSched

\* Lines 232-241: compute the sleep and go to sleep.
SleepCalc ==
    /\ pc = "sleepcalc"
    /\ wakeAt' = clock + SleepTime(LYRICS_DATA, current_line_index,
                                   TOTAL_MUSIC_DURATION, clock)
    /\ pc' = "sleeping"
    /\ UNCHANGED <<inputVars, clock, current_line_index, elapsed_time,
                   display_index, screen_lock, cursorHidden, histVars>>
    /\ UNCHANGED notSched

\* time.sleep returns, no earlier than asked.
Wake ==
    /\ pc = "sleeping"
    /\ clock >= wakeAt
    /\ wakeAt' = 0
    /\ pc' = "check"
    /\ UNCHANGED <<inputVars, clock, current_line_index, elapsed_time,
                   display_index, screen_lock, cursorHidden, histVars>>
    /\ UNCHANGED notSched

\* ------------------------------------------------------ the end message
\* Line 244: with screen_lock
FinalEnter ==
    /\ pc = "final"
    /\ screen_lock = "free"
    /\ screen_lock' = "final"
    /\ pc' = "final_write"
    /\ UNCHANGED <<inputVars, clock, current_line_index, elapsed_time,
                   display_index, wakeAt, cursorHidden, histVars>>
    /\ UNCHANGED notSched

\* Lines 245-262: clear, write the end message, flush, release the lock.
FinalWrite ==
    /\ pc = "final_write"
    /\ endMessage' = TRUE
    /\ lastWriter' = "final"
    /\ screen_lock' = "free"
    /\ pc' = "finalwait"
    /\ UNCHANGED <<inputVars, clock, current_line_index, elapsed_time,
                   display_index, wakeAt, cursorHidden, lastShown,
                   cleanupCalls, loopExit, lastCheck, tickNo, skippedTicks, passedOver,
                   workTookTime>>
    /\ UNCHANGED notSched

\* A write of the end message raises: nothing in start_lyrics_animation
\* catches it, and the main program's line 279 does.
FinalError ==
    /\ pc = "final_write"
    /\ screen_lock' = "free"
    /\ pc' = "except_exc"
    /\ UNCHANGED <<inputVars, clock, current_line_index, elapsed_time,
                   display_index, wakeAt, cursorHidden, histVars>>
    /\ UNCHANGED notSched

\* Line 263: time.sleep(3), then start_lyrics_animation returns.
FinalWait ==
    /\ pc = "finalwait"
    /\ pc' = "mainmsg"
    /\ UNCHANGED <<inputVars, clock, current_line_index, elapsed_time,
                   display_index, wakeAt, screen_lock, cursorHidden, histVars>>
    /\ UNCHANGED notSched

\* ------------------------------------------------------ the main program
\* Line 268: with screen_lock
MainMessageEnter ==
    /\ pc = "mainmsg"
    /\ screen_lock = "free"
    /\ screen_lock' = "mainmsg"
    /\ pc' = "mainmsg_write"
    /\ UNCHANGED <<inputVars, clock, current_line_index, elapsed_time,
                   display_index, wakeAt, cursorHidden, histVars>>
    /\ UNCHANGED notSched

\* Lines 269-275: the closing message, under the lock.
MainMessageWrite ==
    /\ pc = "mainmsg_write"
    /\ lastWriter' = "mainmsg"
    /\ screen_lock' = "free"
    /\ pc' = "input"
    /\ UNCHANGED <<inputVars, clock, current_line_index, elapsed_time,
                   display_index, wakeAt, cursorHidden, lastShown,
                   cleanupCalls, endMessage, loopExit, lastCheck, tickNo,
                   skippedTicks, passedOver,
                   workTookTime>>
    /\ UNCHANGED notSched

\* Line 276: input() returns; the try block ends normally.
Input ==
    /\ pc = "input"
    /\ pc' = "finally"
    /\ UNCHANGED <<inputVars, clock, current_line_index, elapsed_time,
                   display_index, wakeAt, screen_lock, cursorHidden, histVars>>
    /\ UNCHANGED notSched

\* (variant) the lock is taken and released by hand, and an interrupt skips
\* the release
KeyboardInterrupt_KeepsLock ==
    /\ pc \in TryPcs
    /\ loopExit' = IF pc \in LoopPcs THEN "interrupt" ELSE loopExit
    /\ LoopLocalsDropped
    /\ pc' = "except_kbd"
    /\ UNCHANGED <<inputVars, screen_lock, cursorHidden, lastShown,
                   lastWriter, cleanupCalls, endMessage, lastCheck, tickNo,
                   skippedTicks, workTookTime>>
    /\ UNCHANGED notSched

\* The user presses Ctrl-C while the try block runs: the with block that is
\* open, if any, releases the lock, and line 277 catches the interrupt.
KeyboardInterrupt ==
    /\ pc \in TryPcs
    /\ screen_lock' = "free"
    /\ loopExit' = IF pc \in LoopPcs THEN "interrupt" ELSE loopExit
    /\ LoopLocalsDropped
    /\ pc' = "except_kbd"
    /\ UNCHANGED <<inputVars, cursorHidden, lastShown, lastWriter,
                   cleanupCalls, endMessage, lastCheck, tickNo,
                   skippedTicks,
                   workTookTime>>
    /\ UNCHANGED notSched

\* (variant) cleanup_screen is called at the end of the try block only
AfterHandler_NoFinally == "exit"

\* Where control goes after an except clause of the main program: line 281.
AfterHandler == "finally"

\* Lines 277-278: print the notice.
ExceptKeyboardInterrupt ==
    /\ pc = "except_kbd"
    /\ lastWriter' = "print"
    /\ pc' = AfterHandler
    /\ UNCHANGED <<inputVars, clock, current_line_index, elapsed_time,
                   display_index, wakeAt, screen_lock, cursorHidden, lastShown,
                   cleanupCalls, endMessage, loopExit, lastCheck, tickNo,
                   skippedTicks, passedOver,
                   workTookTime>>
    /\ UNCHANGED notSched

\* Lines 279-280: print the error.
ExceptException ==
    /\ pc = "except_exc"
    /\ lastWriter' = "print"
    /\ pc' = AfterHandler
    /\ UNCHANGED <<inputVars, clock, current_line_index, elapsed_time,
                   display_index, wakeAt, screen_lock, cursorHidden, lastShown,
                   cleanupCalls, endMessage, loopExit, lastCheck, tickNo,
                   skippedTicks, passedOver,
                   workTookTime>>
    /\ UNCHANGED notSched

\* -------------------------------------------------------- cleanup_screen
\* Lines 281-282 and 156: the finally clause calls cleanup_screen, which
\* takes the lock.
CleanupEnter ==
    /\ pc = "finally"
    /\ screen_lock = "free"
    /\ screen_lock' = "cleanup"
    /\ cleanupCalls' = cleanupCalls + 1
    /\ pc' = "cleanup_write"
    /\ UNCHANGED <<inputVars, clock, current_line_index, elapsed_time,
                   display_index, wakeAt, cursorHidden, lastShown, lastWriter,
                   endMessage, loopExit, lastCheck, tickNo, skippedTicks, passedOver,
                   workTookTime>>
    /\ UNCHANGED notSched

\* Lines 157-159: clear, show the cursor, flush; the lock is released.
CleanupWrite ==
    /\ pc = "cleanup_write"
    /\ cursorHidden' = FALSE
    /\ lastWriter' = "cleanup"
    /\ screen_lock' = "free"
    /\ pc' = "exit"
    /\ UNCHANGED <<inputVars, clock, current_line_index, elapsed_time,
                   display_index, wakeAt, lastShown, cleanupCalls, endMessage,
                   loopExit, lastCheck, tickNo, skippedTicks, passedOver,
                   workTookTime>>
    /\ UNCHANGED notSched

SchedNext ==
    \/ Tick
    \/ Start
    \/ LoopCheck
    \/ TickBody
    \/ DisplayEnter
    \/ DisplayPaint
    \/ DisplayFlush
    \/ DisplayOSError
    \/ DisplayOtherError
    \/ SleepCalc
    \/ Wake
    \/ FinalEnter
    \/ FinalWrite
    \/ FinalError
    \/ FinalWait
    \/ MainMessageEnter
    \/ MainMessageWrite
    \/ Input
    \/ KeyboardInterrupt
    \/ ExceptKeyboardInterrupt
    \/ ExceptException
    \/ CleanupEnter
    \/ CleanupWrite

\* The scheduler and the main program are not exercised.
SchedOff ==
    /\ LYRICS_DATA = <<>>
    /\ TOTAL_MUSIC_DURATION = 0
    /\ clock = 0
    /\ pc = "off"
    /\ current_line_index = 0
    /\ elapsed_time = 0
    /\ display_index = -1
    /\ wakeAt = 0
    /\ screen_lock = "free"
    /\ cursorHidden = FALSE
    /\ lastShown = -1
    /\ lastWriter = "none"
    /\ cleanupCalls = 0
    /\ endMessage = FALSE
    /\ loopExit = "none"
    /\ lastCheck = "none"
    /\ tickNo = 0
    /\ skippedTicks = FALSE
    /\ passedOver = {}
    /\ workTookTime = FALSE

\* ---------------------------------------------------- split_and_wrap_text
\* A text is a sequence of characters.  Two letters tell words apart; the
\* space stands for every whitespace character but the line break.
Alphabet == {"a", "b", " ", "\n"}
Whitespace == {" ", "\n"}
MaxTextLen == 5
MaxWidth == 3
Texts == SeqsUpTo(Alphabet, MaxTextLen)

\* str.split(sep) for a one-character sep: the parts between the separators,
\* empty parts included.
RECURSIVE SplitOn(_, _)
SplitOn(t, sep) ==
    IF \A i \in 1..Len(t) : t[i] # sep
    THEN <<t>>
    ELSE LET k == CHOOSE i \in 1..Len(t) :
                      t[i] = sep /\ \A j \in 1..(i - 1) : t[j] # sep
         IN  <<SubSeq(t, 1, k - 1)>> \o SplitOn(SubSeq(t, k + 1, Len(t)), sep)

\* str.split(): the maximal runs of characters that are not whitespace.
RECURSIVE SplitWords(_)
SplitWords(t) ==
    IF t = <<>> THEN <<>>
    ELSE IF t[1] \in Whitespace THEN SplitWords(Tail(t))
    ELSE LET n == CHOOSE i \in 1..Len(t) :
                      /\ \A j \in 1..i : t[j] \notin Whitespace
                      /\ i = Len(t) \/ t[i + 1] \in Whitespace
         IN  <<SubSeq(t, 1, n)>> \o SplitWords(SubSeq(t, n + 1, Len(t)))

\* " ".join(words)
RECURSIVE Join(_)
Join(words) ==
    IF words = <<>> THEN <<>>
    ELSE IF Len(words) = 1 THEN words[1]
    ELSE words[1] \o <<" ">> \o Join(Tail(words))

\* (variant) only the word itself is measured against the width
WordFits_WordOnly(current_line, current_line_length, word, width) ==
    Len(word) <= width

\* Line 67: the word is appended to the current line.
WordFits(current_line, current_line_length, word, width) ==
    current_line_length + Len(word)
        + (IF current_line # <<>> THEN 1 ELSE 0) <= width

\* Line 70, which runs after the append of line 68: current_line holds the
\* word already, so the 1 is always added.
LengthAfterAppend(current_line, current_line_length, word) ==
    current_line_length + Len(word)
        + (IF Append(current_line, word) # <<>> THEN 1 ELSE 0)

\* (variant) the flush after the loop emits the line even when it is empty
FlushLast_Always(lines, current_line) == Append(lines, Join(current_line))

\* (variant) the flush after the loop is missing
FlushLast_Missing(lines, current_line) == lines

\* Lines 77-78: the line under construction is emitted if it holds a word.
FlushLast(lines, current_line) ==
    IF current_line # <<>> THEN Append(lines, Join(current_line)) ELSE lines

\* Lines 65-78: the words of one part, from word k on.
RECURSIVE PackWords(_, _, _, _, _, _)
PackWords(words, k, width, lines, current_line, current_line_length) ==
    IF k > Len(words)
    THEN FlushLast(lines, current_line)
    ELSE IF WordFits(current_line, current_line_length, words[k], width)
    THEN PackWords(words, k + 1, width, lines,
                   Append(current_line, words[k]),
                   LengthAfterAppend(current_line, current_line_length, words[k]))
    ELSE PackWords(words, k + 1, width, Append(lines, Join(current_line)),
                   <<words[k]>>, Len(words[k]))

\* Lines 60-78: the parts, from part k on, appended to wrapped lines.
RECURSIVE WrapParts(_, _, _, _)
WrapParts(parts, k, width, lines) ==
    IF k > Len(parts)
    THEN lines
    ELSE WrapParts(parts, k + 1, width,
                   PackWords(SplitWords(parts[k]), 1, width, lines, <<>>, 0))

\* Lines 54-80.
split_and_wrap_text(t, width) ==
    WrapParts(SplitOn(t, "\n"), 1, width, <<>>)

WrapInit ==
    /\ text \in Texts
    /\ max_width \in 1..MaxWidth
    /\ wrapped_lines = <<>>
    /\ wrapPc = "call"

WrapOff ==
    /\ text = <<>>
    /\ max_width = 1
    /\ wrapped_lines = <<>>
    /\ wrapPc = "off"

WrapCall ==
    /\ wrapPc = "call"
    /\ wrapped_lines' = split_and_wrap_text(text, max_width)
    /\ wrapPc' = "done"
    /\ UNCHANGED <<text, max_width, schedVars, renderVars, loaderVars>>

\* ------------------------------------------- display_content: the rows
\* Lines 86-87.
start_col == 2
start_row == 1

MaxHeight == 5
MaxLyrics == 2
\* Texts of no piece, one piece, one or two pieces, and an oversized word.
RenderTexts == {<<>>, <<"a">>, <<"a", " ", "b">>, <<"a", "b">>}

\* (variant) the increment of line 103 stands outside the if, as line 147
\* does for the lyrics
HeaderPiece_CountsAlways(st, kind, height) ==
    [row |-> st.row + 1,
     painted |-> IF st.row < height
                 THEN Append(st.painted,
                             [row |-> start_row + st.row, col |-> start_col,
                              kind |-> kind, index |-> -1])
                 ELSE st.painted]

\* Lines 98-103 and 108-111: one wrapped piece of a title or artist line.
HeaderPiece(st, kind, height) ==
    IF st.row < height
    THEN [row |-> st.row + 1,
          painted |-> Append(st.painted,
                             [row |-> start_row + st.row, col |-> start_col,
                              kind |-> kind, index |-> -1])]
    ELSE st

\* Lines 95-103 and 105-111: the pieces of the lines of one header list.
RECURSIVE HeaderPieces(_, _, _, _, _)
HeaderPieces(st, pieces, k, kind, height) ==
    IF k > Len(pieces) THEN st
    ELSE HeaderPieces(HeaderPiece(st, kind, height), pieces, k + 1, kind, height)

RECURSIVE WrapAll(_, _, _)
WrapAll(lines, k, width) ==
    IF k > Len(lines) THEN <<>>
    ELSE split_and_wrap_text(lines[k], width) \o WrapAll(lines, k + 1, width)

HeaderLines(st, lines, kind, width, height) ==
    HeaderPieces(st, WrapAll(lines, 1, width), 1, kind, height)

\* Lines 113-114: the blank separator.
Separator(st, height) ==
    IF st.row < height THEN [st EXCEPT !.row = @ + 1] ELSE st

\* (variant) the increment of line 147 is missing: every piece of a lyric is
\* written to the row the lyric starts on
LyricPiece_SameRow(st, i, active, height) ==
    [row |-> st.row,
     painted |-> IF st.row < height
                 THEN Append(st.painted,
                             [row |-> start_row + st.row, col |-> start_col,
                              kind |-> IF i = active THEN "active" ELSE "inactive",
                              index |-> i])
                 ELSE st.painted]

\* (variant) the piece is written without the check of line 142
LyricPiece_Unchecked(st, i, active, height) ==
    [row |-> st.row + 1,
     painted |-> Append(st.painted,
                        [row |-> start_row + st.row, col |-> start_col,
                         kind |-> IF i = active THEN "active" ELSE "inactive",
                         index |-> i])]

\* Lines 133-147: one wrapped piece of lyric i.
LyricPiece(st, i, active, height) ==
    [row |-> st.row + 1,
     painted |-> IF st.row < height
                 THEN Append(st.painted,
                             [row |-> start_row + st.row, col |-> start_col,
                              kind |-> IF i = active THEN "active" ELSE "inactive",
                              index |-> i])
                 ELSE st.painted]

RECURSIVE LyricPieces(_, _, _, _, _, _)
LyricPieces(st, pieces, k, i, active, height) ==
    IF k > Len(pieces) THEN st
    ELSE LyricPieces(LyricPiece(st, i, active, height), pieces, k + 1, i,
                     active, height)

\* Lines 121-149: for i in range(i, end_lyric_index).
RECURSIVE LyricRows(_, _, _, _, _, _, _)
LyricRows(st, data, i, end_lyric_index, active, width, height) ==
    IF i >= end_lyric_index THEN st
    ELSE LyricRows(
            IF i >= 0 /\ i < Len(data)
            THEN LyricPieces(st, split_and_wrap_text(data[i + 1], width), 1, i,
                             active, height)
            ELSE [st EXCEPT !.row = @ + 1],
            data, i + 1, end_lyric_index, active, width, height)

\* Lines 94-114: the row cursor and the rows painted once title, artist and
\* separator are done.
HeaderDone(titles, artists, width, height) ==
    Separator(
        HeaderLines(
            HeaderLines([row |-> 0, painted |-> <<>>], titles, "title",
                        width, height),
            artists, "artist", width, height),
        height)

\* Lines 117-119.
EndLyricIndex(start_lyric_index, row, height) ==
    LET lines_to_show == height - row
    IN  start_lyric_index + lines_to_show

\* (variant) the window is centred: it starts one line before the active one
Frame_FromPrevious(active, data, titles, artists, width, height) ==
    LET h == HeaderDone(titles, artists, width, height)
    IN  LyricRows(h, data, active - 1,
                  EndLyricIndex(active - 1, h.row, height), active, width,
                  height)

\* Lines 89-149: the frame of display_content(active, data, content_info).
Frame(active, data, titles, artists, width, height) ==
    LET h == HeaderDone(titles, artists, width, height)
    IN  LyricRows(h, data, active, EndLyricIndex(active, h.row, height),
                  active, width, height)

RenderInit ==
    /\ TEXT_HEIGHT \in 1..MaxHeight
    /\ TEXT_WIDTH \in 1..MaxWidth
    /\ title_lines \in {<<t>> : t \in RenderTexts}
    /\ artist_lines \in {<<t>> : t \in RenderTexts}
    /\ lyrics_data \in SeqsUpTo(RenderTexts, MaxLyrics)
    /\ active_index \in -1..Len(lyrics_data)
    /\ painted = <<>>
    /\ current_display_row = 0
    /\ header_rows = 0
    /\ renderPc = "call"

RenderOff ==
    /\ TEXT_HEIGHT = 1
    /\ TEXT_WIDTH = 1
    /\ title_lines = <<>>
    /\ artist_lines = <<>>
    /\ lyrics_data = <<>>
    /\ active_index = 0
    /\ painted = <<>>
    /\ current_display_row = 0
    /\ header_rows = 0
    /\ renderPc = "off"

RenderCall ==
    /\ renderPc = "call"
    /\ LET f == Frame(active_index, lyrics_data, title_lines, artist_lines,
                      TEXT_WIDTH, TEXT_HEIGHT)
       IN  /\ painted' = f.painted
           /\ current_display_row' = f.row
    /\ header_rows' = HeaderDone(title_lines, artist_lines, TEXT_WIDTH,
                                 TEXT_HEIGHT).row
    /\ renderPc' = "done"
    /\ UNCHANGED <<TEXT_HEIGHT, TEXT_WIDTH, title_lines, artist_lines,
                   lyrics_data, active_index, schedVars, wrapVars,
                   loaderVars>>

\* ---------------------------------------------- Python floats (binary64)
\* A positive float is 1.f * 2^e: e and the 53 bits of the significand, the
\* leading 1 included; zero is the significand of 53 zeros with e = 0.  The
\* times of the loader are far from the subnormal and the infinite range.
Precision == 53
FloatZero == [e |-> 0, m |-> [i \in 1..Precision |-> 0]]

\* The bits of a sequence plus one: a bit flips when every bit after it is 1.
\* The carry out of an all-ones sequence is told by AllOnes.
BitsPlusOne(bits) ==
    [i \in 1..Len(bits) |->
        IF \A j \in (i + 1)..Len(bits) : bits[j] = 1 THEN 1 - bits[i]
        ELSE bits[i]]

AllOnes(bits) == \A j \in 1..Len(bits) : bits[j] = 1

\* Round to nearest, ties to even: the first Precision bits of a significand
\* whose leading bit is 1, given the bit after them (guard) and whether
\* anything lies beyond it (sticky).
RoundNearestEven(e, bits, guard, sticky) ==
    IF guard = 1 /\ (sticky \/ bits[Precision] = 1)
    THEN [e |-> IF AllOnes(bits) THEN e + 1 ELSE e,
          m |-> IF AllOnes(bits)
                THEN [i \in 1..Precision |-> IF i = 1 THEN 1 ELSE 0]
                ELSE BitsPlusOne(bits)]
    ELSE [e |-> e, m |-> bits]

\* The binary expansion of r / d for 0 <= r < d, eight bits at a time: n
\* digits of base 256 and the remainder left.
RECURSIVE QuotientDigits(_, _, _, _)
QuotientDigits(r, d, n, digits) ==
    IF n = 0 THEN [digits |-> digits, rem |-> r]
    ELSE QuotientDigits((256 * r) % d, d, n - 1,
                        Append(digits, (256 * r) \div d))

\* Bit i of the expansion, the bit of weight 1/2 being bit 1.
DigitBit(digits, i) ==
    (digits[((i - 1) \div 8) + 1] \div 2 ^ (7 - ((i - 1) % 8))) % 2

\* n / d scaled into [1, 2) as num / den, with the exponent e of n / d:
\* 2^e <= n / d < 2^(e+1).
ScaleQuotient(n, d) ==
    IF n >= d
    THEN LET e == CHOOSE k \in 0..30 : d * 2 ^ k <= n /\ n < d * 2 ^ (k + 1)
         IN  [num |-> n, den |-> d * 2 ^ e, e |-> e]
    ELSE LET k == CHOOSE k \in 1..30 : n * 2 ^ k >= d /\ n * 2 ^ k < 2 * d
         IN  [num |-> n * 2 ^ k, den |-> d, e |-> 0 - k]

\* The float nearest to n / d, for integers n >= 0 and d > 0 that a float
\* holds exactly: what the division of the two as floats returns, and what a
\* decimal literal of that value denotes.
NearestDouble(n, d) ==
    IF n = 0 THEN FloatZero
    ELSE LET s == ScaleQuotient(n, d)
             q == QuotientDigits(s.num - s.den, s.den, 7, <<>>)
         IN  RoundNearestEven(
                 s.e,
                 [i \in 1..Precision |->
                     IF i = 1 THEN 1 ELSE DigitBit(q.digits, i - 1)],
                 DigitBit(q.digits, Precision),
                 \/ q.rem # 0
                 \/ \E i \in (Precision + 1)..56 : DigitBit(q.digits, i) = 1)

\* The carry into bit i of the sum of two bit sequences of one length: some
\* later position generates a carry and every position between passes it on.
CarryInto(a, b, i) ==
    \E j \in (i + 1)..Len(a) :
        /\ a[j] + b[j] = 2
        /\ \A k \in (i + 1)..(j - 1) : a[k] + b[k] = 1

\* The sum of two bit sequences of one length, one bit longer.
BitsSum(a, b) ==
    [i \in 1..(Len(a) + 1) |->
        IF i = 1 THEN (IF CarryInto(a, b, 0) THEN 1 ELSE 0)
        ELSE (a[i - 1] + b[i - 1]
                + (IF CarryInto(a, b, i - 1) THEN 1 ELSE 0)) % 2]

Zeros(n) == [i \in 1..n |-> 0]

\* x + y for floats x >= y > 0: the exact sum of the aligned significands,
\* rounded.
FloatAddOrdered(x, y) ==
    LET shift == x.e - y.e
    IN  IF shift > Precision + 1 THEN x
        ELSE LET sum == BitsSum(x.m \o Zeros(shift), Zeros(shift) \o y.m)
                 lead == IF sum[1] = 1 THEN 1 ELSE 2
                 rest == SubSeq(sum, lead + Precision, Len(sum))
             IN  RoundNearestEven(
                     x.e + (IF lead = 1 THEN 1 ELSE 0),
                     SubSeq(sum, lead, lead + Precision - 1),
                     IF rest = <<>> THEN 0 ELSE rest[1],
                     \E i \in 2..Len(rest) : rest[i] = 1)

\* x < y for floats that are not negative.
FloatLess(x, y) ==
    IF x = FloatZero THEN y # FloatZero
    ELSE IF y = FloatZero THEN FALSE
    ELSE \/ x.e < y.e
         \/ /\ x.e = y.e
            /\ \E i \in 1..Precision :
                  /\ x.m[i] < y.m[i]
                  /\ \A j \in 1..(i - 1) : x.m[j] = y.m[j]

\* x + y for floats that are not negative.
FloatAdd(x, y) ==
    IF x = FloatZero THEN y
    ELSE IF y = FloatZero THEN x
    ELSE IF FloatLess(x, y) THEN FloatAddOrdered(y, x)
    ELSE FloatAddOrdered(x, y)

\* ------------------------------------------------- SpotifyLyricsLoader
\* An optional value: None, or the value.  A key of a JSON object that is
\* absent is None.
None == <<>>
Some(x) == <<x>>

\* dict.get(key, default)
Get(field, default) == IF field = None THEN default ELSE field[1]

MaxEntries == 2

\* An item of a lyrics array that is an object; an absent key is None.
Item(words, startTimeMs) ==
    [kind |-> "object", words |-> words, startTimeMs |-> startTimeMs]

\* The items of a lyrics array: words with and without surrounding space at
\* "7430", "15240" and without startTimeMs, entries to be skipped (words
\* empty, whitespace only or absent, one of them with a startTimeMs that is
\* no number), an entry whose startTimeMs is no number, and a value that is
\* no object.
Items ==
    {Item(Some(<<"a">>), Some(<<"7", "4", "3", "0">>)),
     Item(Some(<<" ", "b">>), Some(<<"1", "5", "2", "4", "0">>)),
     Item(Some(<<"a">>), None),
     Item(Some(<<" ">>), Some(<<"7", "4", "3", "0">>)),
     Item(Some(<<>>), Some(<<"x">>)),
     Item(None, Some(<<"1", "5", "2", "4", "0">>)),
     Item(Some(<<"a">>), Some(<<"x">>)),
     [kind |-> "string", words |-> None, startTimeMs |-> None]}

\* What is at the path: nothing, text that is no JSON, an array, an object
\* (with or without the key lyrics, its array of one entry at most), or
\* another JSON value.
Files ==
    {[kind |-> k, title |-> None, artist |-> None, lyrics |-> None] :
        k \in {"missing", "malformed", "number"}}
    \cup [kind : {"array"}, title : {None}, artist : {None},
          lyrics : {Some(l) : l \in SeqsUpTo(Items, MaxEntries)}]
    \cup [kind : {"object"},
          title : {None, Some(""), Some("F")},
          artist : {None, Some("G")},
          lyrics : {None} \cup {Some(l) : l \in SeqsUpTo(Items, 1)}]

\* The titles and artists given to the constructor and to set_metadata.
InitTitles == {"", "C"}
InitArtists == {"", "D"}
SetTitles == {"", "S", "T"}
SetArtists == {"", "U"}
\* The buffer_seconds given to get_total_duration: 0.0 and the default 3.0.
Buffers == {0, 3}

\* Lines 43-48: __init__
LoaderInit ==
    /\ json_file \in Files
    /\ title \in InitTitles
    /\ artist \in InitArtists
    /\ _lyrics_data = None
    /\ _raw_data = None
    /\ _metadata = None
    /\ returned = [call |-> "__init__", outcome |-> "return", value |-> "None"]
    /\ loadSucceeded = FALSE
    /\ supplied = [title |-> "", artist |-> ""]

\* No loader is exercised.
LoaderOff ==
    /\ json_file = [kind |-> "missing", title |-> None, artist |-> None,
                    lyrics |-> None]
    /\ title = ""
    /\ artist = ""
    /\ _lyrics_data = None
    /\ _raw_data = None
    /\ _metadata = None
    /\ returned = [call |-> "off", outcome |-> "return", value |-> "None"]
    /\ loadSucceeded = FALSE
    /\ supplied = [title |-> "", artist |-> ""]

\* str.strip(): the text without its leading and trailing whitespace.
RECURSIVE Strip(_)
Strip(t) ==
    IF t = <<>> THEN <<>>
    ELSE IF t[1] \in Whitespace THEN Strip(Tail(t))
    ELSE IF t[Len(t)] \in Whitespace THEN Strip(SubSeq(t, 1, Len(t) - 1))
    ELSE t

DigitChars == {"0", "1", "2", "3", "4", "5", "6", "7", "8", "9"}
DigitValue(c) ==
    CASE c = "0" -> 0 [] c = "1" -> 1 [] c = "2" -> 2 [] c = "3" -> 3
      [] c = "4" -> 4 [] c = "5" -> 5 [] c = "6" -> 6 [] c = "7" -> 7
      [] c = "8" -> 8 [] c = "9" -> 9

\* The value of a string of decimal digits.
RECURSIVE DecimalValue(_)
DecimalValue(t) ==
    IF t = <<>> THEN 0
    ELSE 10 * DecimalValue(SubSeq(t, 1, Len(t) - 1)) + DigitValue(t[Len(t)])

\* int(s) for a string s of the input alphabet: its value, or ValueError.
int(t) ==
    IF t # <<>> /\ \A i \in 1..Len(t) : t[i] \in DigitChars
    THEN [error |-> "none", value |-> DecimalValue(t)]
    ELSE [error |-> "ValueError", value |-> 0]

\* Line 102: item.get('words', '').strip() is not empty.
HasWords(item) == Strip(Get(item.words, <<>>)) # <<>>

\* Line 106: int(item.get('startTimeMs', 0)); the default is the integer 0.
start_time_ms(item) ==
    IF item.startTimeMs = None THEN [error |-> "none", value |-> 0]
    ELSE int(item.startTimeMs[1])

\* (variant) the milliseconds are divided with //, which drops the fraction
start_time_seconds_Floor(ms) == NearestDouble(ms \div 1000, 1)

\* Line 107: start_time_ms / 1000.0
start_time_seconds(ms) == NearestDouble(ms, 1000)

\* Lines 110-113.
converted_entry(item) ==
    [time |-> start_time_seconds(start_time_ms(item).value),
     original |-> Get(item.words, <<>>)]

\* (variant) the test of line 102 looks at the words without strip()
SkipsItem_NoStrip(item) == Get(item.words, <<>>) = <<>>

\* Lines 102-103: the item is skipped.
SkipsItem(item) == ~HasWords(item)

\* Lines 100-115: the items from item k on; the list built, and the
\* exception that ends the loop early, if any.  An item that is no object
\* has no get.
RECURSIVE ConvertItems(_, _, _)
ConvertItems(raw, k, data) ==
    IF k > Len(raw) THEN [data |-> data, error |-> "none"]
    ELSE IF raw[k].kind # "object"
    THEN [data |-> data, error |-> "AttributeError"]
    ELSE IF SkipsItem(raw[k]) THEN ConvertItems(raw, k + 1, data)
    ELSE IF start_time_ms(raw[k]).error # "none"
    THEN [data |-> data, error |-> start_time_ms(raw[k]).error]
    ELSE ConvertItems(raw, k + 1, Append(data, converted_entry(raw[k])))

\* Lines 95-115: self._lyrics_data as _convert_data leaves it, and the
\* exception it raises, if any.
convert_data(raw) == ConvertItems(raw, 1, <<>>)

\* Lines 62-63: what open() and json.load() raise on the file, if anything.
ReadError(f) ==
    CASE f.kind = "missing" -> "FileNotFoundError"
      [] f.kind = "malformed" -> "JSONDecodeError"
      [] OTHER -> "none"

\* Line 66: isinstance(data, dict) and 'lyrics' in data
NewFormat(f) == f.kind = "object" /\ f.lyrics # None

\* Lines 67-70.
MetadataOf(f) == [title |-> Get(f.title, ""), artist |-> Get(f.artist, "")]

\* (variant) the file's value is taken whenever the file has one
FromFileIfUnset_FileWins(current, fromFile) ==
    IF fromFile # "" THEN fromFile ELSE current

\* Lines 72-75: the file's title (artist) is taken when none is set.
FromFileIfUnset(current, fromFile) ==
    IF current = "" /\ fromFile # "" THEN fromFile ELSE current

\* Lines 76 and 79: the list handed to _convert_data.
RawDataOf(f) ==
    IF NewFormat(f) THEN f.lyrics[1]
    ELSE IF f.kind = "array" THEN f.lyrics[1]
    ELSE <<>>

\* Lines 83 and 86: the exceptions load() turns into False.
Caught == {"FileNotFoundError", "JSONDecodeError"}

\* How a call that raised error inside the try block of load() ends.
LoadFailure(error) ==
    IF error \in Caught
    THEN [call |-> "load", outcome |-> "return", value |-> FALSE]
    ELSE [call |-> "load", outcome |-> "raise", value |-> error]

\* Lines 61-88: load()
Load ==
    /\ returned.call # "off"
    /\ IF ReadError(json_file) # "none"
       THEN /\ returned' = LoadFailure(ReadError(json_file))
            /\ UNCHANGED <<title, artist, _lyrics_data, _raw_data, _metadata>>
       ELSE LET converted == convert_data(RawDataOf(json_file))
            IN  /\ IF NewFormat(json_file)
                   THEN /\ _metadata' = Some(MetadataOf(json_file))
                        /\ title' = FromFileIfUnset(
                                        title, MetadataOf(json_file).title)
                        /\ artist' = FromFileIfUnset(
                                         artist, MetadataOf(json_file).artist)
                   ELSE UNCHANGED <<_metadata, title, artist>>
                /\ _raw_data' = Some(RawDataOf(json_file))
                /\ _lyrics_data' = Some(converted.data)
                /\ returned' =
                      IF converted.error = "none"
                      THEN [call |-> "load", outcome |-> "return",
                            value |-> TRUE]
                      ELSE LoadFailure(converted.error)
    /\ loadSucceeded' = \/ loadSucceeded
                        \/ returned'.outcome = "return" /\ returned'.value
    /\ UNCHANGED <<json_file, supplied>>
    /\ UNCHANGED <<schedVars, wrapVars, renderVars>>

\* Lines 125-127: get_lyrics_data()
GetLyricsData ==
    /\ returned.call # "off"
    /\ returned' =
          IF _lyrics_data = None
          THEN [call |-> "get_lyrics_data", outcome |-> "raise",
                value |-> "RuntimeError"]
          ELSE [call |-> "get_lyrics_data", outcome |-> "return",
                value |-> _lyrics_data[1]]
    /\ UNCHANGED <<json_file, title, artist, _lyrics_data, _raw_data, _metadata,
                   loadSucceeded, supplied>>
    /\ UNCHANGED <<schedVars, wrapVars, renderVars>>

\* (variant) no default: an empty title or artist is shown as it is
content_info_NoDefault(t, a) == [title_lines |-> <<t>>, artist_lines |-> <<a>>]

\* Lines 136-139.
content_info(t, a) ==
    [title_lines |-> IF t # "" THEN <<t>> ELSE <<"Música sem título">>,
     artist_lines |-> IF a # "" THEN <<a>> ELSE <<"Artista desconhecido">>]

\* Lines 136-139: get_content_info()
GetContentInfo ==
    /\ returned.call # "off"
    /\ returned' = [call |-> "get_content_info", outcome |-> "return",
                    value |-> content_info(title, artist)]
    /\ UNCHANGED <<json_file, title, artist, _lyrics_data, _raw_data, _metadata,
                   loadSucceeded, supplied>>
    /\ UNCHANGED <<schedVars, wrapVars, renderVars>>

\* (variant) the buffer is left out when there are lyrics
total_duration_NoBuffer(data, buffer_seconds) ==
    IF data = None \/ Get(data, <<>>) = <<>> THEN buffer_seconds
    ELSE data[1][Len(data[1])].time

\* Lines 151-155: the last time plus the buffer, or the buffer alone.
total_duration(data, buffer_seconds) ==
    IF data = None \/ Get(data, <<>>) = <<>> THEN buffer_seconds
    ELSE FloatAdd(data[1][Len(data[1])].time, buffer_seconds)

\* Lines 151-155: get_total_duration(buffer_seconds)
GetTotalDuration ==
    /\ returned.call # "off"
    /\ \E b \in Buffers :
          returned' = [call |-> "get_total_duration", outcome |-> "return",
                       buffer_seconds |-> NearestDouble(b, 1),
                       value |-> total_duration(_lyrics_data,
                                                NearestDouble(b, 1))]
    /\ UNCHANGED <<json_file, title, artist, _lyrics_data, _raw_data, _metadata,
                   loadSucceeded, supplied>>
    /\ UNCHANGED <<schedVars, wrapVars, renderVars>>

\* (variant) the argument is stored whatever it is
Updated_Always(current, given) == given

\* Lines 165-168: the field after set_metadata was given a value for it.
Updated(current, given) == IF given # "" THEN given ELSE current

\* Lines 165-168: set_metadata(title, artist)
SetMetadata ==
    /\ returned.call # "off"
    /\ \E t \in SetTitles, a \in SetArtists :
          /\ title' = Updated(title, t)
          /\ artist' = Updated(artist, a)
          /\ returned' = [call |-> "set_metadata", outcome |-> "return",
                          title |-> t, artist |-> a, value |-> "None"]
          /\ supplied' = [title |-> IF t = "" THEN supplied.title ELSE t,
                          artist |-> IF a = "" THEN supplied.artist ELSE a]
    /\ UNCHANGED <<json_file, _lyrics_data, _raw_data, _metadata,
                   loadSucceeded>>
    /\ UNCHANGED <<schedVars, wrapVars, renderVars>>

LoaderNext ==
    \/ Load
    \/ GetLyricsData
    \/ GetContentInfo
    \/ GetTotalDuration
    \/ SetMetadata

\* --------------------------------------------------------- specifications
\* The main program with its tick loop.
Init == SchedInit /\ WrapOff /\ RenderOff /\ LoaderOff
Next == SchedNext
Spec == Init /\ [][Next]_vars

\* split_and_wrap_text on every text and width within the bounds.
WrapSpecInit == SchedOff /\ WrapInit /\ RenderOff /\ LoaderOff
WrapNext == WrapCall
WrapSpec == WrapSpecInit /\ [][WrapNext]_vars

\* display_content on every header, lyrics list, index and geometry within
\* the bounds.
RenderSpecInit == SchedOff /\ WrapOff /\ RenderInit /\ LoaderOff
RenderNext == RenderCall
RenderSpec == RenderSpecInit /\ [][RenderNext]_vars

\* A loader object, from its construction on, with the calls made on it in
\* any order.
LoaderSpecInit == SchedOff /\ WrapOff /\ RenderOff /\ LoaderInit
LoaderSpec == LoaderSpecInit /\ [][LoaderNext]_vars

\* The fairness of the main program: the clock keeps advancing and the
\* interpreter keeps executing the thread.  Errors and interrupts may or may
\* not happen.
ProgramStep ==
    \/ Start
    \/ LoopCheck
    \/ TickBody
    \/ DisplayEnter
    \/ DisplayPaint
    \/ DisplayFlush
    \/ SleepCalc
    \/ Wake
    \/ FinalEnter
    \/ FinalWrite
    \/ FinalWait
    \/ MainMessageEnter
    \/ MainMessageWrite
    \/ Input
    \/ ExceptKeyboardInterrupt
    \/ ExceptException
    \/ CleanupEnter
    \/ CleanupWrite
FairSpec == Spec /\ WF_vars(Tick) /\ WF_vars(ProgramStep)

\* The loop is waiting for the first line: the tick before this loop check
\* skipped the render by the continue of line 219 and so did not sleep, and
\* the clock still shows that tick's sample.
BusyWaiting ==
    /\ pc = "check"
    /\ tickNo > 0
    /\ display_index < 0
    /\ clock = elapsed_time

\* Time passes, and every time.sleep of the loop (line 241) returns exactly
\* when it is due: the clock does not pass wakeAt while the loop sleeps.  It
\* is recorded when the clock advances while the loop is at work, other than
\* by one unit between two samples of a loop that waits for its first line.
TickTimed ==
    /\ pc \in ClockReadPcs
    /\ IF pc = "sleeping" THEN clock < wakeAt ELSE clock < ClockCap
    /\ clock' = clock + 1
    /\ workTookTime' = (workTookTime \/ (pc # "sleeping" /\ ~BusyWaiting))
    /\ UNCHANGED <<inputVars, pc, current_line_index, elapsed_time,
                   display_index, wakeAt, screen_lock, cursorHidden, lastShown,
                   lastWriter, cleanupCalls, endMessage, loopExit, lastCheck,
                   tickNo, skippedTicks, passedOver>>
    /\ UNCHANGED notSched

\* The main program under sleeps that end exactly when they are due.
TimedNext ==
    \/ TickTimed
    \/ ProgramStep
    \/ DisplayOSError
    \/ DisplayOtherError
    \/ FinalError
    \/ KeyboardInterrupt
TimedSpec == Init /\ [][TimedNext]_vars

\* ---------------------------------------------------------------- claims
\* The positions inside a display_content call made by the tick loop.
DisplayPcs == {"disp_enter", "disp_paint", "disp_flush"}
NLines == Len(LYRICS_DATA)

\* C1: whenever the tick loop renders a frame with display index i at the
\* sampled elapsed time e, on a sequence whose times are non-decreasing,
\* time[i] <= e and i is the last index or e < time[i+1]; for the times
\* 0.0, 4.5, 9.0 s and e = 6.0 s (in 10 ms units) the display index is 1.
C1_ActiveWindow ==
    /\ (pc \in DisplayPcs /\ Chronological(LYRICS_DATA)) =>
          /\ display_index \in 0..(NLines - 1)
          /\ LYRICS_DATA[display_index + 1] <= elapsed_time
          /\ \/ display_index = NLines - 1
             \/ elapsed_time < LYRICS_DATA[display_index + 2]
    /\ ResolveDisplay(<<0, 450, 900>>,
                      AdvanceCursor(<<0, 450, 900>>, 0, 600)) = 1

\* A frame of the middle entry of three, strictly between its time and the
\* next entry's.
C1_Witness ==
    /\ pc = "disp_paint"
    /\ NLines = 3
    /\ Chronological(LYRICS_DATA)
    /\ LYRICS_DATA[1] < LYRICS_DATA[2]
    /\ display_index = 1
    /\ LYRICS_DATA[2] < elapsed_time
    /\ elapsed_time < LYRICS_DATA[3]

\* C2: from one step of the tick loop to the next the raw cursor
\* current_line_index never decreases, and the index given to
\* display_content never decreases from one call to the next.
C2_IndexMonotone ==
    [][/\ pc' \in LoopPcs => current_line_index' >= current_line_index
       /\ lastShown' >= lastShown]_vars

\* A later tick calls display_content with a larger index than the call
\* before it.
C2_Witness ==
    /\ pc = "disp_enter"
    /\ tickNo = 2
    /\ lastShown >= 0
    /\ display_index > lastShown

C4_FirstLineAtOnce ==
    (NLines > 0 /\ LYRICS_DATA[1] = 0) =>
        /\ ~skippedTicks
        /\ (tickNo = 1 /\ pc \in DisplayPcs
              /\ \A j \in 2..NLines : LYRICS_DATA[j] > elapsed_time)
           => display_index = 0

\* The first tick, at elapsed 0, draws line 0 of a longer sequence.
C4_Witness ==
    /\ pc = "disp_paint"
    /\ tickNo = 1
    /\ NLines >= 2
    /\ LYRICS_DATA[1] = 0
    /\ elapsed_time = 0
    /\ display_index = 0

\* C5: the main program ends only through cleanup_screen, which runs exactly
\* once and writes last, so the program ends with the cursor visible; it
\* never stops anywhere else.
C5_CleanupExactlyOnce ==
    /\ cleanupCalls <= 1
    /\ pc = "exit" =>
          /\ cleanupCalls = 1
          /\ lastWriter = "cleanup"
          /\ ~cursorHidden
    /\ pc # "exit" => ENABLED (ProgramStep \/ Tick)

\* The program has ended after a Ctrl-C in the tick loop, the cursor having
\* been hidden by start_lyrics_animation.
C5_Witness ==
    /\ pc = "exit"
    /\ loopExit = "interrupt"
    /\ lastShown >= 0
    /\ cleanupCalls = 1

\* C6: the writes of a frame and the writes of cleanup_screen are made with
\* screen_lock held by their writer, nothing else runs while a frame holds
\* the lock, and the lock is free again once display_content has been left,
\* by return or by an exception.
C6_WritesUnderLock ==
    /\ pc \in {"disp_paint", "disp_flush"} <=> screen_lock = "display"
    /\ pc = "cleanup_write" <=> screen_lock = "cleanup"
    /\ pc \in {"final", "except_exc", "except_kbd", "sleepcalc", "finally"}
          => screen_lock = "free"

\* display_content has been left by an OSError and the lock is free.
C6_Witness ==
    /\ pc = "final"
    /\ loopExit = "oserror"
    /\ screen_lock = "free"

\* C7: the end message is written only when the loop ended because elapsed
\* reached the total duration.
C7_EndMessageOnlyOnCompletion ==
    endMessage => loopExit = "duration"

\* C8: under a clock that keeps advancing the tick loop is eventually left,
\* and no tick body starts after a loop check that observed elapsed >= total.
C8_LoopTerminates ==
    /\ [](pc = "tick" => lastCheck = "below")
    /\ [](lastCheck = "reached" => pc \notin LoopPcs)
    /\ <>(pc \notin (LoopPcs \cup {"start"}))

\* The loop of a sequence that starts late has skipped ticks, rendered, and
\* ended by the total duration.
C8_Witness ==
    /\ pc = "final"
    /\ loopExit = "duration"
    /\ NLines > 0
    /\ LYRICS_DATA[1] > 0
    /\ skippedTicks
    /\ lastShown >= 0

\* The lyric rows of a frame.
LyricRowsPainted ==
    {k \in 1..Len(painted) : painted[k].kind \in {"active", "inactive"}}

\* C9: every row painted by display_content lies in
\* start_row..start_row + TEXT_HEIGHT - 1, and a frame holds at most
\* TEXT_HEIGHT minus the header's and separator's rows of lyric rows.
C9_RowsWithinBudget ==
    renderPc = "done" =>
        /\ \A k \in 1..Len(painted) :
              painted[k].row \in start_row..(start_row + TEXT_HEIGHT - 1)
        /\ Cardinality(LyricRowsPainted) <= TEXT_HEIGHT - header_rows

\* TEXT_HEIGHT 5 and a 3-row header: 2 lyric rows are painted although the
\* lyrics wrap to more pieces than fit.
C9_Witness ==
    /\ renderPc = "done"
    /\ TEXT_HEIGHT = 5
    /\ header_rows = 3
    /\ Cardinality(LyricRowsPainted) = 2
    /\ current_display_row > TEXT_HEIGHT

RECURSIVE WordsOfLines(_, _)
WordsOfLines(lines, k) ==
    IF k > Len(lines) THEN <<>>
    ELSE SplitWords(lines[k]) \o WordsOfLines(lines, k + 1)

\* The numbers of words before each boundary between the lists.
RECURSIVE WordBoundaries(_, _, _)
WordBoundaries(lists, k, n) ==
    IF k > Len(lists) THEN {n}
    ELSE {n} \cup WordBoundaries(lists, k + 1, n + Len(SplitWords(lists[k])))

\* C10: the words of the returned lines, in order, are the words of the text
\* in order, and no returned line holds words of two segments.
C10_WordsPreserved ==
    wrapPc = "done" =>
        /\ WordsOfLines(wrapped_lines, 1) = SplitWords(text)
        /\ WordBoundaries(SplitOn(text, "\n"), 1, 0)
              \subseteq WordBoundaries(wrapped_lines, 1, 0)

\* A text with words on both sides of a hard break, one side wrapped.
C10_Witness ==
    /\ wrapPc = "done"
    /\ Len(SplitOn(text, "\n")) = 2
    /\ \A k \in 1..2 : SplitWords(SplitOn(text, "\n")[k]) # <<>>
    /\ Len(SplitWords(text)) = 3
    /\ Len(wrapped_lines) = 3

\* C11: every returned line is at most max_width long, unless the line is a
\* single word that is itself longer than max_width.
C11_LineLengthBounded ==
    wrapPc = "done" =>
        \A k \in 1..Len(wrapped_lines) :
            \/ Len(wrapped_lines[k]) <= max_width
            \/ /\ SplitWords(wrapped_lines[k]) = <<wrapped_lines[k]>>
               /\ Len(wrapped_lines[k]) > max_width

\* A text wrapped to several lines, one of them two words that fill the
\* width exactly.
C11_Witness ==
    /\ wrapPc = "done"
    /\ Len(wrapped_lines) >= 2
    /\ \E k \in 1..Len(wrapped_lines) :
          /\ Len(SplitWords(wrapped_lines[k])) = 2
          /\ Len(wrapped_lines[k]) = max_width

\* The words of the segments of a text, segment by segment.
SegmentWords(t) ==
    LET parts == SplitOn(t, "\n")
    IN  [k \in 1..Len(parts) |-> SplitWords(parts[k])]

\* C12: a word longer than max_width is a line of its own: a text that is
\* just one such word returns exactly that one line, and a segment that
\* begins with such a word produces no other line for it: the lines of a
\* one-segment text are as many as its words at most.
C12_OversizedWordAlone ==
    wrapPc = "done" =>
        /\ (SplitWords(text) = <<text>> /\ Len(text) > max_width)
              => wrapped_lines = <<text>>
        /\ (Len(SegmentWords(text)) = 1 /\ SplitWords(text) # <<>>
              /\ Len(SplitWords(text)[1]) > max_width)
              => /\ wrapped_lines[1] = SplitWords(text)[1]
                 /\ Len(wrapped_lines) <= Len(SplitWords(text))

\* The segments of a text that hold a word.
NonBlankParts(t) ==
    SelectSeq(SplitOn(t, "\n"), LAMBDA p : SplitWords(p) # <<>>)

\* C13: the empty text, and every text without a word, returns the empty
\* list for every width, and the segments without a word contribute no
\* line: the result is that of the segments that hold a word.
C13_EmptySegmentsNoLine ==
    wrapPc = "done" =>
        /\ text = <<>> => wrapped_lines = <<>>
        /\ SplitWords(text) = <<>> => wrapped_lines = <<>>
        /\ wrapped_lines = WrapParts(NonBlankParts(text), 1, max_width, <<>>)
        /\ \A k \in 1..Len(wrapped_lines) :
              wrapped_lines[k] = <<>> =>
                 \E w \in 1..Len(SplitWords(text)) :
                     Len(SplitWords(text)[w]) > max_width

\* A whitespace-only segment between two segments with a word each: two
\* lines are returned.
C13_Witness ==
    /\ wrapPc = "done"
    /\ Len(SplitOn(text, "\n")) = 3
    /\ SplitOn(text, "\n")[2] = <<" ">>
    /\ Len(NonBlankParts(text)) = 2
    /\ Len(wrapped_lines) = 2

\* The items of the lyrics array of a file: the input entries of a load.
InputEntries(f) ==
    IF f.kind \in {"array", "object"} /\ f.lyrics # None THEN f.lyrics[1]
    ELSE <<>>

\* The input entries whose words hold a character that is no whitespace.
KeptEntries(f) ==
    SelectSeq(InputEntries(f),
              LAMBDA item :
                  /\ item.words # None
                  /\ \E i \in 1..Len(item.words[1]) :
                        item.words[1][i] \notin Whitespace)

LoadReturnedTrue ==
    /\ returned.call = "load"
    /\ returned.outcome = "return"
    /\ returned.value

\* C14: after a load() that returned True the converted data are the input
\* entries whose words hold a non-whitespace character, in input order, each
\* with its words verbatim as text, and get_lyrics_data() returns these data.
C14_KeptEntriesInOrder ==
    /\ LoadReturnedTrue =>
          /\ _lyrics_data # None
          /\ Len(_lyrics_data[1]) = Len(KeptEntries(json_file))
          /\ \A k \in 1..Len(_lyrics_data[1]) :
                _lyrics_data[1][k].original = KeptEntries(json_file)[k].words[1]
    /\ (returned.call = "get_lyrics_data" /\ loadSucceeded) =>
          /\ returned.outcome = "return"
          /\ Len(returned.value) = Len(KeptEntries(json_file))
          /\ \A k \in 1..Len(returned.value) :
                returned.value[k].original = KeptEntries(json_file)[k].words[1]

\* get_lyrics_data() after the load of two entries, the first of them
\* whitespace only: the one entry returned has its words with the leading
\* space.
C14_Witness ==
    /\ returned.call = "get_lyrics_data"
    /\ loadSucceeded
    /\ Len(InputEntries(json_file)) = 2
    /\ InputEntries(json_file)[1].words = Some(<<" ">>)
    /\ Len(returned.value) = 1
    /\ returned.value[1].original = <<" ", "b">>

\* C15: load() on a missing file and on malformed JSON returns False without
\* raising, and as long as no load() has succeeded get_lyrics_data() raises
\* RuntimeError instead of returning a sequence.
C15_FailedLoadNoData ==
    /\ (returned.call = "load" /\ json_file.kind \in {"missing", "malformed"})
          => /\ returned.outcome = "return"
             /\ ~returned.value
    /\ (returned.call = "get_lyrics_data" /\ ~loadSucceeded)
          => /\ returned.outcome = "raise"
             /\ returned.value = "RuntimeError"

\* An entry that is no object, or whose startTimeMs is present and is no
\* string of digits.
Malformed(item) ==
    \/ item.kind # "object"
    \/ /\ item.startTimeMs # None
       /\ \/ item.startTimeMs[1] = <<>>
          \/ \E i \in 1..Len(item.startTimeMs[1]) :
                item.startTimeMs[1][i] \notin DigitChars

\* C16: load() of a lyrics array with a malformed entry returns False, and
\* no exception escapes it.
C16_MalformedEntryReported ==
    (/\ returned.call = "load"
     /\ \E k \in 1..Len(InputEntries(json_file)) :
           Malformed(InputEntries(json_file)[k]))
        => /\ returned.outcome = "return"
           /\ ~returned.value

\* The title (artist) the file offers: that of a top-level object with the
\* key lyrics, empty otherwise.
Offered(f, field) ==
    IF f.kind = "object" /\ f.lyrics # None /\ field # None THEN field[1]
    ELSE ""

LastTime ==
    IF _lyrics_data = None \/ Get(_lyrics_data, <<>>) = <<>> THEN FloatZero
    ELSE _lyrics_data[1][Len(_lyrics_data[1])].time

HasEntries == _lyrics_data # None /\ Get(_lyrics_data, <<>>) # <<>>

\* The floats of the literals 15.24, 18.24 and 3.0.
Float_15_24 == NearestDouble(1524, 100)
Float_18_24 == NearestDouble(1824, 100)
Float_3_0 == NearestDouble(3, 1)

\* get_total_duration returns the last entry's time plus the buffer, as
\* floats add, when there is an entry, and the buffer itself when there is
\* none.
DurationIsLastPlusBuffer ==
    returned.call = "get_total_duration" =>
        returned.value = IF HasEntries
                         THEN FloatAdd(LastTime, returned.buffer_seconds)
                         ELSE returned.buffer_seconds

\* C18 as stated: the last time plus the buffer, the buffer alone for an
\* empty sequence, and 18.24 for the last time 15.24 and the buffer 3.0.
C18_TotalDuration ==
    /\ DurationIsLastPlusBuffer
    /\ (/\ returned.call = "get_total_duration"
        /\ HasEntries
        /\ LastTime = Float_15_24
        /\ returned.buffer_seconds = Float_3_0)
          => returned.value = Float_18_24

\* C18 amended: the last time plus the buffer, the buffer alone for an empty
\* sequence, and for the last time 15.24 and the buffer 3.0 the float sum
\* 15.24 + 3.0, which is the float next above 18.24 (18.240000000000002).
C18_TotalDurationFloatSum ==
    /\ DurationIsLastPlusBuffer
    /\ (/\ returned.call = "get_total_duration"
        /\ HasEntries
        /\ LastTime = Float_15_24
        /\ returned.buffer_seconds = Float_3_0)
          => /\ returned.value = FloatAdd(Float_15_24, Float_3_0)
             /\ returned.value.e = Float_18_24.e
             /\ returned.value.m = BitsPlusOne(Float_18_24.m)

\* get_total_duration() with the default buffer on data whose last entry is
\* at 15.24 s.
C18_Witness ==
    /\ returned.call = "get_total_duration"
    /\ HasEntries
    /\ LastTime = Float_15_24
    /\ returned.buffer_seconds = Float_3_0
    /\ returned.value # Float_18_24

\* The milliseconds of an input entry: the digits of its startTimeMs, 0 when
\* the key is absent.
Milliseconds(item) ==
    IF item.startTimeMs = None THEN 0 ELSE DecimalValue(item.startTimeMs[1])

\* C19: after a load() that returned True the time of each kept entry is the
\* float of its milliseconds divided by 1000 (7430 gives 7.43, 0 gives 0.0,
\* 3600000 gives 3600.0), and the times of two kept entries compare as their
\* milliseconds do: less when less, equal when equal.
C19_MillisecondsToSeconds ==
    /\ start_time_seconds(7430) = NearestDouble(743, 100)
    /\ start_time_seconds(0) = FloatZero
    /\ start_time_seconds(3600000) = NearestDouble(3600, 1)
    /\ LoadReturnedTrue =>
          LET kept == KeptEntries(json_file)
              data == _lyrics_data[1]
          IN  /\ Len(data) = Len(kept)
              /\ \A k \in 1..Len(data) :
                    data[k].time = NearestDouble(Milliseconds(kept[k]), 1000)
              /\ \A i, j \in 1..Len(data) :
                    /\ Milliseconds(kept[i]) < Milliseconds(kept[j])
                          <=> FloatLess(data[i].time, data[j].time)
                    /\ Milliseconds(kept[i]) = Milliseconds(kept[j])
                          <=> data[i].time = data[j].time

\* Two kept entries, the later one first: 15.24 s, then 7.43 s.
C19_Witness ==
    /\ LoadReturnedTrue
    /\ Len(_lyrics_data[1]) = 2
    /\ _lyrics_data[1][1].time = Float_15_24
    /\ _lyrics_data[1][2].time = NearestDouble(743, 100)
    /\ FloatLess(_lyrics_data[1][2].time, _lyrics_data[1][1].time)

\* C20: set_metadata replaces title (artist) by its argument when the
\* argument is not empty and leaves it otherwise, and leaves the lyrics data
\* as they are; get_content_info() shows the current title and artist; and
\* once a non-empty title (artist) was given to set_metadata, the title
\* (artist) is the last such one given.
C20_SetMetadata ==
    /\ [][/\ SetMetadata =>
               /\ title' = IF returned'.title # "" THEN returned'.title
                           ELSE title
               /\ artist' = IF returned'.artist # "" THEN returned'.artist
                            ELSE artist
               /\ UNCHANGED <<_lyrics_data, _raw_data, _metadata>>
          /\ GetContentInfo =>
               /\ title # "" => returned'.value.title_lines = <<title>>
               /\ artist # "" => returned'.value.artist_lines = <<artist>>
               /\ Len(returned'.value.title_lines) = 1
               /\ Len(returned'.value.artist_lines) = 1]_vars
    /\ [](/\ supplied.title # "" => title = supplied.title
          /\ supplied.artist # "" => artist = supplied.artist)

\* get_content_info() after set_metadata calls that gave the titles S and T
\* and then no title, on a loader that has loaded entries from a file that
\* offers a title: the title shown is T.
C20_Witness ==
    /\ returned.call = "get_content_info"
    /\ supplied.title = "T"
    /\ returned.value.title_lines = <<"T">>
    /\ json_file.title = Some("F")
    /\ loadSucceeded
    /\ HasEntries

\* C21: get_content_info() returns title_lines = [title] when title is not
\* empty and ['Música sem título'] otherwise, artist_lines = [artist] when
\* artist is not empty and ['Artista desconhecido'] otherwise; each list has
\* exactly one element, whether or not load() has been called, and the call
\* changes nothing of the loader.
C21_ContentInfoDefaults ==
    [][GetContentInfo =>
         /\ returned'.outcome = "return"
         /\ returned'.value.title_lines =
               (IF title = "" THEN <<"Música sem título">> ELSE <<title>>)
         /\ returned'.value.artist_lines =
               (IF artist = "" THEN <<"Artista desconhecido">> ELSE <<artist>>)
         /\ Len(returned'.value.title_lines) = 1
         /\ Len(returned'.value.artist_lines) = 1
         /\ returned'.value.title_lines[1] # ""
         /\ returned'.value.artist_lines[1] # ""
         /\ UNCHANGED <<title, artist, _lyrics_data>>]_vars

\* get_content_info() after a load() that returned True from a file that
\* offers an artist and no title, on a loader constructed without either: the
\* default title and the file's artist.
C21_Witness ==
    /\ returned.call = "get_content_info"
    /\ loadSucceeded
    /\ title = ""
    /\ artist = "G"
    /\ returned.value.title_lines = <<"Música sem título">>
    /\ returned.value.artist_lines = <<"G">>

\* C22: every iteration of the tick loop that does not leave the loop ends
\* with a sleep of at least the minimum tick, the iterations that skip the
\* render included: the loop comes back to its check only from a sleep, and
\* every sleep asked for lasts at least the minimum tick.
C22_EveryIterationSleeps ==
    [][/\ (pc \in LoopPcs /\ pc # "check" /\ pc' = "check")
             => (pc = "sleeping" /\ Wake)
       /\ SleepCalc => wakeAt' - clock >= MinTick]_vars

\* C23: after each render the loop asks for a sleep, and the sleep asked for
\* is max(0.01 s, T - elapsed), where elapsed is the time since start_time
\* read when the sleep is computed (line 238), and T is the time of the entry
\* at the raw cursor when the cursor is below the length of the sequence and
\* the total duration otherwise; the sleep does not end before that.
C23_SleepRequested ==
    [][/\ DisplayFlush => pc' = "sleepcalc"
       /\ SleepCalc =>
            LET T == IF current_line_index < NLines
                     THEN LYRICS_DATA[current_line_index + 1]
                     ELSE TOTAL_MUSIC_DURATION
                requested == wakeAt' - clock
            IN  /\ lastShown >= 0
                /\ T - clock >= MinTick => requested = T - clock
                /\ T - clock < MinTick => requested = MinTick
                /\ pc' = "sleeping"
       /\ Wake => clock >= wakeAt]_vars

\* A sleep, asked for after a render, that runs until the next entry's time
\* and has more than the minimum tick left; time has passed since the sample
\* of line 203.
C23_Witness ==
    /\ pc = "sleeping"
    /\ lastShown >= 0
    /\ current_line_index < NLines
    /\ wakeAt = LYRICS_DATA[current_line_index + 1]
    /\ elapsed_time < clock
    /\ clock < wakeAt
    /\ wakeAt - clock > MinTick

\* The number of entries whose time has passed at elapsed time e.
PassedBy(e) == Cardinality({j \in 1..NLines : LYRICS_DATA[j] <= e})

\* C24: on a chronological sequence one tick moves the cursor past every
\* entry whose time has passed, however many have passed since the tick
\* before, and the frame of that tick shows the last of them; an entry that
\* a tick has passed over (its index lies between the index shown before and
\* the index shown now) is never given to display_content, in that tick or
\* later.
C24_CatchUpShowsLast ==
    /\ [][/\ (TickBody /\ Chronological(LYRICS_DATA)) =>
               /\ current_line_index' = PassedBy(clock)
               /\ current_line_index' > 0 =>
                     /\ pc' = "disp_enter"
                     /\ display_index' = current_line_index' - 1
          /\ DisplayEnter => lastShown' = display_index]_vars
    /\ [](/\ lastShown \notin passedOver
          /\ pc \in DisplayPcs => display_index \notin passedOver)

\* A later tick that comes after the times of two more entries: it is about
\* to show index 2 after index 0, passing over index 1.
C24_Witness ==
    /\ pc = "disp_enter"
    /\ tickNo = 2
    /\ Chronological(LYRICS_DATA)
    /\ NLines = 3
    /\ lastShown = 0
    /\ display_index = 2
    /\ LYRICS_DATA[2] > LYRICS_DATA[1]
    /\ LYRICS_DATA[3] <= elapsed_time
    /\ passedOver = {1}

\* C25: a tick whose elapsed time is below the first entry's time (which is
\* then greater than 0), or whose sequence is empty, renders nothing: it goes
\* back to the loop check without calling display_content; so no
\* display_content call is in progress unless the first entry's time has
\* been reached.
C25_NoRenderBeforeFirst ==
    /\ [][(TickBody /\ (NLines = 0 \/ clock < LYRICS_DATA[1])) =>
             /\ display_index' < 0
             /\ pc' = "check"
             /\ UNCHANGED <<lastShown, lastWriter, screen_lock>>]_vars
    /\ [](pc \in DisplayPcs =>
             /\ NLines > 0
             /\ LYRICS_DATA[1] <= elapsed_time)

\* A later tick of a sequence that has entries has skipped the render: the
\* time of its first entry is still ahead and nothing has been shown.
C25_Witness ==
    /\ pc = "check"
    /\ tickNo = 2
    /\ skippedTicks
    /\ NLines > 0
    /\ 0 < elapsed_time
    /\ elapsed_time < LYRICS_DATA[1]
    /\ lastShown = -1
    /\ lastWriter = "start"

\* C26: in every reachable state the raw cursor current_line_index lies in
\* [-1, len(sequence)].
C26_CursorInRange ==
    /\ current_line_index >= -1
    /\ current_line_index <= NLines

\* The cursor of a running loop has reached the length of a sequence of
\* several entries: every entry's time has passed.
C26_Witness ==
    /\ pc = "sleeping"
    /\ NLines >= 2
    /\ current_line_index = NLines
    /\ lastShown = NLines - 1

\* C27: an OSError raised by display_content ends the tick loop at once: the
\* step that handles it leaves the loop, and from then on the loop is not
\* running, no sleep of the loop is pending, and display_content is not
\* called again.
C27_OSErrorEndsLoop ==
    /\ [][/\ DisplayOSError =>
               /\ pc \in DisplayPcs
               /\ pc' \notin LoopPcs
               /\ loopExit' = "oserror"
               /\ wakeAt' = 0
          /\ loopExit = "oserror" =>
               /\ lastShown' = lastShown
               /\ loopExit' = "oserror"
               /\ ~SleepCalc /\ ~Wake /\ ~DisplayEnter /\ ~TickBody]_vars
    /\ [](loopExit = "oserror" => (pc \notin LoopPcs /\ wakeAt = 0))

\* The loop has been left by an OSError of a later frame, after an earlier
\* frame was drawn and slept on.
C27_Witness ==
    /\ loopExit = "oserror"
    /\ pc = "final"
    /\ tickNo = 2
    /\ lastShown >= 1
    /\ ~endMessage

\* The first lyric row painted, of a frame that has one.
FirstLyricRow ==
    painted[CHOOSE k \in LyricRowsPainted : \A j \in LyricRowsPainted : k <= j]

\* The lyric rows of the frame belong to indices of the window only:
\* [active, active + visible_rows), visible_rows being TEXT_HEIGHT minus the
\* rows of header and separator; so no line before the active one is painted.
LyricRowsInWindow ==
    \A k \in LyricRowsPainted :
        /\ painted[k].index >= active_index
        /\ painted[k].index < active_index + (TEXT_HEIGHT - header_rows)
        /\ painted[k].index \in 0..(Len(lyrics_data) - 1)

\* C28: in every frame painted by display_content the lyric rows belong only
\* to indices in [active, active + visible_rows), no line with an index below
\* the active index is painted, and if any lyric row is painted the first
\* painted lyric row belongs to the active index.
C28_LyricWindow ==
    renderPc = "done" =>
        /\ LyricRowsInWindow
        /\ LyricRowsPainted # {} => FirstLyricRow.index = active_index

\* C28, amended: as above, the first painted lyric row belonging to the active
\* index when the active index is an index of the sequence and the active
\* line's text holds at least one word; an active line without a word gets no
\* row, and the first painted lyric row is then a later line's, in the
\* inactive style.
C28_LyricWindowOfWordedLine ==
    renderPc = "done" =>
        /\ LyricRowsInWindow
        /\ (/\ LyricRowsPainted # {}
            /\ active_index \in 0..(Len(lyrics_data) - 1)
            /\ SplitWords(lyrics_data[active_index + 1]) # <<>>)
           => /\ FirstLyricRow.index = active_index
              /\ FirstLyricRow.kind = "active"
              /\ FirstLyricRow.row = start_row + header_rows
        /\ (/\ LyricRowsPainted # {}
            /\ active_index \in 0..(Len(lyrics_data) - 1)
            /\ SplitWords(lyrics_data[active_index + 1]) = <<>>)
           => /\ FirstLyricRow.index > active_index
              /\ FirstLyricRow.kind = "inactive"

\* A frame of two lines, the first one active, under a two-row header in a
\* region of five rows: the active line's row comes first, the next line's
\* after it.
C28_Witness ==
    /\ renderPc = "done"
    /\ TEXT_HEIGHT = 5
    /\ header_rows = 3
    /\ Len(lyrics_data) = 2
    /\ active_index = 0
    /\ Cardinality(LyricRowsPainted) = 2
    /\ FirstLyricRow.index = 0
    /\ \E k \in LyricRowsPainted : painted[k].index = 1

\* The wrapped pieces of the title and artist lines of the call.
HeaderPieceCount ==
    Len(WrapAll(title_lines, 1, TEXT_WIDTH))
        + Len(WrapAll(artist_lines, 1, TEXT_WIDTH))

HeaderRowsPainted ==
    {k \in 1..Len(painted) : painted[k].kind \in {"title", "artist"}}

\* C29: the row cursor advances by one for every wrapped title or artist
\* piece, also for a piece beyond the TEXT_HEIGHT budget, which is not
\* painted: after the header the cursor is the number of pieces, plus one
\* for the separator when that number is below TEXT_HEIGHT.
C29_HeaderRowsCounted ==
    renderPc = "done" =>
        /\ header_rows = HeaderPieceCount
                           + (IF HeaderPieceCount < TEXT_HEIGHT THEN 1 ELSE 0)
        /\ Cardinality(HeaderRowsPainted) <= TEXT_HEIGHT

\* C29, amended: the row cursor advances by one for every wrapped title or
\* artist piece that is painted; a piece beyond the TEXT_HEIGHT budget is
\* neither painted nor counted, so after header and separator the cursor is
\* the number of pieces plus one, and TEXT_HEIGHT when that is less.
C29_HeaderRowsPaintedCounted ==
    renderPc = "done" =>
        /\ Cardinality(HeaderRowsPainted) =
              (IF HeaderPieceCount < TEXT_HEIGHT THEN HeaderPieceCount
               ELSE TEXT_HEIGHT)
        /\ header_rows =
              (IF HeaderPieceCount + 1 < TEXT_HEIGHT THEN HeaderPieceCount + 1
               ELSE TEXT_HEIGHT)
        /\ header_rows <= TEXT_HEIGHT

\* A header of four pieces in a region of two rows: two pieces are painted
\* and the cursor stands at 2 after the header.
C29_Witness ==
    /\ renderPc = "done"
    /\ HeaderPieceCount = 4
    /\ TEXT_HEIGHT = 2
    /\ Cardinality(HeaderRowsPainted) = 2
    /\ header_rows = 2

\* Greedy packing by the line's actual length: the words of one segment from
\* word k on, line being the output line under construction.
RECURSIVE PackByLength(_, _, _, _, _)
PackByLength(words, k, width, lines, line) ==
    IF k > Len(words)
    THEN IF line # <<>> THEN Append(lines, line) ELSE lines
    ELSE IF line = <<>> /\ Len(words[k]) <= width
    THEN PackByLength(words, k + 1, width, lines, words[k])
    ELSE IF line # <<>> /\ Len(line) + Len(words[k]) + 1 <= width
    THEN PackByLength(words, k + 1, width, lines,
                      line \o <<" ">> \o words[k])
    ELSE PackByLength(words, k + 1, width, Append(lines, line), words[k])

RECURSIVE PartsByLength(_, _, _, _)
PartsByLength(parts, k, width, lines) ==
    IF k > Len(parts) THEN lines
    ELSE PartsByLength(parts, k + 1, width,
                       PackByLength(SplitWords(parts[k]), 1, width, lines,
                                    <<>>))

\* C30: within a segment a word is appended to the current output line
\* exactly when the line's actual length plus the word's length plus one
\* separating space (none when the line is empty) is at most max_width, and
\* otherwise the line is flushed and a new one starts with the word: the
\* lines returned are those of greedy packing by actual length, each packed
\* with as many words as fit.
C30_PackedByActualLength ==
    wrapPc = "done" =>
        wrapped_lines = PartsByLength(SplitOn(text, "\n"), 1, max_width, <<>>)

\* The entries' times increase strictly, by at least the minimum tick from
\* one to the next, and all lie below the total duration.
TimesSpaced ==
    /\ \A i \in 1..(NLines - 1) : LYRICS_DATA[i] + MinTick <= LYRICS_DATA[i + 1]
    /\ \A i \in 1..NLines : LYRICS_DATA[i] < TOTAL_MUSIC_DURATION

\* C31: when the entries' times are strictly increasing with gaps of at
\* least the minimum tick, all below the total duration, and every sleep
\* wakes exactly when requested, every entry is rendered as the active line
\* exactly once, in sequence order: every frame shows the entry after the one
\* shown before, and a loop that ends by the total duration has shown the
\* last entry.
C31_EachEntryOnce ==
    /\ [][(DisplayEnter /\ TimesSpaced) => display_index = lastShown + 1]_vars
    /\ []((loopExit = "duration" /\ TimesSpaced) => lastShown = NLines - 1)

\* C31, amended: as above, when in addition the loop's own work takes no
\* time: the clock advances only while the loop sleeps, and by no more than
\* one minimum tick between two samples of a loop that waits for its first
\* line.
C31_EachEntryOnceWhenWorkIsInstant ==
    /\ [][(DisplayEnter /\ TimesSpaced /\ ~workTookTime)
             => display_index = lastShown + 1]_vars
    /\ []((loopExit = "duration" /\ TimesSpaced /\ ~workTookTime)
             => lastShown = NLines - 1)

\* The loop of three spaced entries has ended by the total duration with
\* exact sleeps and instant work: the last entry was shown and none was
\* passed over.
C31_Witness ==
    /\ loopExit = "duration"
    /\ pc = "final"
    /\ TimesSpaced
    /\ ~workTookTime
    /\ NLines = 3
    /\ lastShown = 2
    /\ passedOver = {}

\* C32: no sleep requested by the tick loop ends later than
\* max(total duration, elapsed + 10 ms), elapsed being the clock read when
\* the sleep is computed: an entry whose time is greater than the total
\* duration does not keep the loop asleep past the total duration.
C32_NoSleepPastTotal ==
    [][SleepCalc =>
          wakeAt' <= Max(TOTAL_MUSIC_DURATION, clock + MinTick)]_vars

\* The positions where the program sleeps (lines 241 and 263) or waits for
\* input (line 276).
WaitingPcs == {"sleeping", "finalwait", "input"}

\* C33: screen_lock is never held while the program sleeps or waits for
\* input, and it is free whenever control reaches the finally block of the
\* main program, after any interrupt or error; so cleanup_screen always
\* acquires the lock and completes: in the finally block the acquisition is
\* never blocked, the holder of the lock is then cleanup_screen, whose writes
\* can proceed, and the program ends with the lock free.
C33_LockFreeWhenWaiting ==
    /\ pc \in WaitingPcs => screen_lock = "free"
    /\ pc \in {"except_kbd", "except_exc", "finally", "exit"}
          => screen_lock = "free"
    /\ pc = "finally" => ENABLED CleanupEnter
    /\ pc = "cleanup_write" =>
          /\ screen_lock = "cleanup"
          /\ ENABLED CleanupWrite

\* The finally block is reached after an error that display_content raised
\* while it held the lock, with a frame already on the screen.
C33_Witness ==
    /\ pc = "finally"
    /\ loopExit = "exception"
    /\ tickNo = 2
    /\ lastShown >= 1
    /\ lastWriter = "print"
    /\ screen_lock = "free"
    /\ cleanupCalls = 0

\* C34: within one frame the pieces painted (title, artist and lyric pieces)
\* go to strictly increasing rows, so no two share a row; header pieces come
\* first, and every lyric piece lies below the rows of the header and of the
\* blank separator.
C34_RowsStrictlyIncreasing ==
    renderPc = "done" =>
        /\ \A k \in 1..(Len(painted) - 1) :
              /\ painted[k].row < painted[k + 1].row
              /\ painted[k].kind \in {"active", "inactive"}
                    => painted[k + 1].kind \in {"active", "inactive"}
        /\ \A j, k \in 1..Len(painted) :
              j # k => painted[j].row # painted[k].row
        /\ \A k \in HeaderRowsPainted :
              painted[k].row < start_row + header_rows
        /\ \A k \in LyricRowsPainted :
              painted[k].row >= start_row + header_rows

\* A frame with a title, an artist, and a lyric that wraps to two pieces,
\* all painted, the lyric's pieces below the separator's row.
C34_Witness ==
    /\ renderPc = "done"
    /\ Cardinality(HeaderRowsPainted) = 2
    /\ header_rows = 3
    /\ Cardinality(LyricRowsPainted) = 2
    /\ \E j, k \in LyricRowsPainted :
          j # k /\ painted[j].index = painted[k].index
    /\ \A k \in LyricRowsPainted : painted[k].row > start_row + 2

\* C35: a load() that does not return True (it returns False, or an
\* exception aborts it) leaves title, artist and the converted lyrics data as
\* they were before the call, so that get_lyrics_data() afterwards does what
\* it did before: no partially converted sequence is left behind.
C35_FailedLoadChangesNothing ==
    [][(Load /\ ~(returned'.outcome = "return" /\ returned'.value))
          => UNCHANGED <<title, artist, _lyrics_data>>]_vars

=============================================================================
